---- MODULE Spec2Model ----
(***************************************************************************)
(* Model of scripts/extract_figures.py: caption detection, boundary        *)
(* resolution, region rendering, three-pass trimming and the run() loop    *)
(* with label lock-in and manifest emission.                               *)
(*                                                                         *)
(* Texts are sequences of tokens (a word, a digit, "." , "(" or the        *)
(* whitespace token " "); coordinates are integral page units; a rendered  *)
(* buffer is a sequence of rows of gray levels 0..255.                     *)
(***************************************************************************)
EXTENDS Integers, Sequences, FiniteSets, TLC

VARIABLES
  doc,                      \* the opened PDF: a sequence of pages (index 0 = doc[1])
  si,                       \* mode flag of the run (--si)
  pc,                       \* position inside run(): start / loop / done / failed
  captions,                 \* result of find_all_captions
  idx,                      \* 1-based index of the caption the loop is at
  manifest,                 \* run()'s manifest list
  prev_cap_bottom_by_page,  \* dict page -> bottom Y of the last extracted caption
  extracted_labels,         \* set of locked-in labels
  files,                    \* out_dir: label -> image written as <label>.png
  manifest_json,            \* out_dir/manifest.json content, or Absent
  writes,                   \* number of times this run wrote manifest.json
  log,                      \* one printed line per caption the loop has finished
  pixmaps,                  \* clips handed to page.get_pixmap during this run
  first,                    \* what the first completed run on this document produced
  query,                    \* boundary-resolution input: page, caption, previous bottom, mode
  region,                   \* boundary-resolution output for query
  buf,                      \* a rendered buffer given to trim_whitespace
  trim_top,                 \* trim_whitespace's top_start after pass 1
  trimmed                   \* result of trim_whitespace(buf)

vars == <<doc, si, pc, captions, idx, manifest, prev_cap_bottom_by_page,
          extracted_labels, files, manifest_json, writes, log, pixmaps, first,
          query, region, buf, trim_top, trimmed>>

runVars == <<doc, si, pc, captions, idx, manifest, prev_cap_bottom_by_page,
             extracted_labels, files, manifest_json, writes, log, pixmaps, first>>

(***************************************************************************)
(* Program constants                                                       *)
(***************************************************************************)
ZOOM == 4
MIN_SIZE == 20
EDGE_INSET == 3
PREV_GAP == 3
DEFAULT_TOP == 10
HEADER_ZONE == 40
HEADER_PAD == 2
DASH_PAD == 2
SI_BOTTOM_PAD == 2
SI_OVERLAP_TOL == 5
SI_TEXT_GAP == 30
MAIN_BOTTOM_GAP == 3
BELOW_NEXT_GAP == 3
BELOW_PAGE_GAP == 5
TRIM_PAD == 10
WHITE_THRESH == 245
DARK_ROW_THRESH == 200
COL_THRESH == 220
RIGHT_PAD == 12
WHITE == 255

(***************************************************************************)
(* Python None, and small arithmetic helpers                               *)
(***************************************************************************)
None == [none |-> TRUE]
\* None where the code holds either None or a Y coordinate (coordinates are >= 0)
NoY == -1
\* no manifest.json in out_dir: a one-line list that no manifest equals
Absent == <<[absent |-> TRUE]>>

Min2(a, b) == IF a < b THEN a ELSE b
Max2(a, b) == IF a > b THEN a ELSE b
SetMin(S) == CHOOSE x \in S : \A y \in S : x <= y
SetMax(S) == CHOOSE x \in S : \A y \in S : x >= y

(***************************************************************************)
(* Text: tokens, str.lower(), str.strip()                                  *)
(***************************************************************************)
WS == " "
Digits == {"0", "1", "2", "3", "4", "5", "6", "7", "8", "9"}

\* str.lower() on one token
Lower(tok) ==
  CASE tok \in {"Figure", "FIGURE", "figure"} -> "figure"
    [] tok \in {"Fig", "FIG", "fig"} -> "fig"
    [] tok \in {"Table", "TABLE", "table"} -> "table"
    [] tok \in {"Supplementary", "supplementary"} -> "supplementary"
    [] tok \in {"Note", "note"} -> "note"
    [] tok \in {"Text", "text"} -> "text"
    [] tok \in {"Method", "method"} -> "method"
    [] tok \in {"Discussion", "discussion"} -> "discussion"
    [] tok \in {"Information", "information"} -> "information"
    [] tok \in {"S", "s"} -> "s"
    [] tok \in {"DOI", "doi"} -> "doi"
    [] tok \in {"Journal", "journal"} -> "journal"
    [] OTHER -> tok

RECURSIVE LStrip(_)
LStrip(t) == IF t # <<>> /\ Head(t) = WS THEN LStrip(Tail(t)) ELSE t

RECURSIVE RStrip(_)
RStrip(t) ==
  IF t # <<>> /\ t[Len(t)] = WS THEN RStrip(SubSeq(t, 1, Len(t) - 1)) ELSE t

\* b[4].strip()
Strip(t) == RStrip(LStrip(t))

\* position after the longest run of tokens of class C starting at position p
RECURSIVE SkipRun(_, _, _)
SkipRun(t, p, C) ==
  IF p <= Len(t) /\ t[p] \in C THEN SkipRun(t, p + 1, C) ELSE p

(***************************************************************************)
(* Caption grammars.  A match is [kind, num] (groups 1 and 2) or None.     *)
(***************************************************************************)
\* CAPTION_RE_MAIN = ^(Figure|Table)\s+(\d+)[\.\s]   (IGNORECASE)
CAPTION_RE_MAIN(t) ==
  IF Len(t) >= 1 /\ Lower(t[1]) \in {"figure", "table"}
  THEN LET a == SkipRun(t, 2, {WS})
           b == SkipRun(t, a, Digits)
       IN IF a > 2 /\ b > a /\ b <= Len(t) /\ t[b] \in {".", WS}
          THEN [kind |-> t[1], num |-> SubSeq(t, a, b - 1)]
          ELSE None
  ELSE None

\* CAPTION_RE_SI = ^(Fig(?:ure)?|Table)\.?\s+(S?\d+)(?:\.|\s+[^(\s])   (IGNORECASE)
CAPTION_RE_SI(t) ==
  IF Len(t) >= 1 /\ Lower(t[1]) \in {"fig", "figure", "table"}
  THEN LET d == IF Len(t) >= 2 /\ t[2] = "." THEN 3 ELSE 2
           a == SkipRun(t, d, {WS})
           s == IF a <= Len(t) /\ Lower(t[a]) = "s" THEN a + 1 ELSE a
           b == SkipRun(t, s, Digits)
           e == SkipRun(t, b, {WS})
       IN IF a > d /\ b > s /\ b <= Len(t)
             /\ \/ t[b] = "."
                \/ e > b /\ e <= Len(t) /\ t[e] # "("
          THEN [kind |-> t[1], num |-> SubSeq(t, a, b - 1)]
          ELSE None
  ELSE None

\* SI_SECTION_RE = ^(?:Supplementary\s+(?:Figure|Table|Note|Text|Method|
\*                   Discussion|Information)|S\d+\.\s+\S)   (IGNORECASE)
SI_SECTION_RE(t) ==
  \/ /\ Len(t) >= 1 /\ Lower(t[1]) = "supplementary"
     /\ LET a == SkipRun(t, 2, {WS})
        IN a > 2 /\ a <= Len(t)
           /\ Lower(t[a]) \in {"figure", "table", "note", "text", "method",
                               "discussion", "information"}
  \/ /\ Len(t) >= 1 /\ Lower(t[1]) = "s"
     /\ LET b == SkipRun(t, 2, Digits)
            e == SkipRun(t, b + 1, {WS})
        IN b > 2 /\ b <= Len(t) /\ t[b] = "."
           /\ e > b + 1 /\ e <= Len(t)

\* caption_re = CAPTION_RE_SI if si else CAPTION_RE_MAIN
caption_re(s, t) == IF s THEN CAPTION_RE_SI(t) ELSE CAPTION_RE_MAIN(t)

\* any(kw in text.lower() for kw in ["www.", "doi", "nature", "scientific", "journal"])
HasHeaderKeyword(t) ==
  \E p \in 1..Len(t) :
     Lower(t[p]) \in {"www.nature.com", "www.", "doi", "nature", "scientific",
                      "journal", "scientificreports"}

(***************************************************************************)
(* Pages.  A page is [w, h, blocks, drawings, ink]: page.rect is           *)
(* Rect(0, 0, w, h); blocks is page.get_text("blocks") as records          *)
(* [x0, y0, x1, y1, text]; drawings is page.get_drawings() as records      *)
(* [x0, y0, x1, dashes]; ink is the set of filled rectangles [x0, y0, x1, y1, lv]  *)
(* of non-text graphics.                                                   *)
(***************************************************************************)
Rect(x0, y0, x1, y1) == [x0 |-> x0, y0 |-> y0, x1 |-> x1, y1 |-> y1]

\* fitz.Rect.height / fitz.Rect.width: zero for an inverted rectangle
RectHeight(r) == Max2(0, r.y1 - r.y0)
RectWidth(r) == Max2(0, r.x1 - r.x0)

\* "if dashes and str(dashes) != '[] 0'"
IsDashed(d) == d.dashes # "" /\ d.dashes # "[] 0"

\* get_page_content_top(page)
RECURSIVE HeaderBottomFrom(_, _, _)
HeaderBottomFrom(blocks, k, header_bottom) ==
  IF k > Len(blocks) THEN header_bottom
  ELSE LET b == blocks[k]
           text == Strip(b.text)
       IN IF b.y0 < HEADER_ZONE /\ HasHeaderKeyword(text)
          THEN HeaderBottomFrom(blocks, k + 1, Max2(header_bottom, b.y1))
          ELSE HeaderBottomFrom(blocks, k + 1, header_bottom)

\* mutant of get_page_content_top: the default margin is forgotten
get_page_content_top_HeaderOnly(page) ==
  HeaderBottomFrom(page.blocks, 1, 0) + HEADER_PAD

get_page_content_top(page) ==
  LET header_bottom == HeaderBottomFrom(page.blocks, 1, 0)
  IN IF header_bottom > 0 THEN header_bottom + HEADER_PAD ELSE DEFAULT_TOP

\* get_dashed_separator_y(page, above_y)
RECURSIVE DashedFrom(_, _, _, _)
DashedFrom(drawings, k, above_y, result) ==
  IF k > Len(drawings) THEN result
  ELSE LET d == drawings[k]
       IN IF IsDashed(d) /\ d.y0 < above_y /\ (result = NoY \/ d.y0 > result)
          THEN DashedFrom(drawings, k + 1, above_y, d.y0)
          ELSE DashedFrom(drawings, k + 1, above_y, result)

get_dashed_separator_y(page, above_y) == DashedFrom(page.drawings, 1, above_y, NoY)

\* get_si_section_header_bottom(page, above_y)
RECURSIVE SectionBottomFrom(_, _, _, _)
SectionBottomFrom(blocks, k, above_y, bottom) ==
  IF k > Len(blocks) THEN bottom
  ELSE LET b == blocks[k]
       IN IF b.y1 < above_y /\ SI_SECTION_RE(Strip(b.text))
          THEN SectionBottomFrom(blocks, k + 1, above_y, Max2(bottom, b.y1))
          ELSE SectionBottomFrom(blocks, k + 1, above_y, bottom)

get_si_section_header_bottom(page, above_y) ==
  SectionBottomFrom(page.blocks, 1, above_y, 0)

\* get_last_content_bottom(page, caption_top_y, caption_re)
RECURSIVE LastContentFrom(_, _, _, _, _)
LastContentFrom(blocks, k, caption_top_y, s, last_y) ==
  IF k > Len(blocks) THEN last_y
  ELSE LET b == blocks[k]
           text == Strip(b.text)
       IN IF caption_re(s, text) # None THEN LastContentFrom(blocks, k + 1, caption_top_y, s, last_y)
          ELSE IF SI_SECTION_RE(text) THEN LastContentFrom(blocks, k + 1, caption_top_y, s, last_y)
          ELSE IF b.y1 <= caption_top_y + SI_OVERLAP_TOL
               THEN LastContentFrom(blocks, k + 1, caption_top_y, s, Max2(last_y, b.y1))
               ELSE LastContentFrom(blocks, k + 1, caption_top_y, s, last_y)

get_last_content_bottom(page, caption_top_y, s) ==
  LastContentFrom(page.blocks, 1, caption_top_y, s, 0)

(***************************************************************************)
(* find_all_captions(doc, si)                                              *)
(***************************************************************************)
\* the label built at lines 220-228: a token sequence, "s" prefix in SI mode
kind_norm(kind) ==
  IF Lower(kind) = "table" THEN "table" ELSE "figure"

num_clean(num) ==
  LET stripped == IF num # <<>> /\ Lower(Head(num)) = "s" THEN Tail(num) ELSE num
  IN IF stripped # <<>> THEN stripped ELSE num

MakeLabel(s, m) ==
  IF s THEN <<"s", kind_norm(m.kind)>> \o num_clean(m.num)
  ELSE <<kind_norm(m.kind)>> \o m.num

RECURSIVE PageCaptionsFrom(_, _, _, _)
PageCaptionsFrom(page, page_num, s, k) ==
  IF k > Len(page.blocks) THEN <<>>
  ELSE LET b == page.blocks[k]
           text == Strip(b.text)
           m == caption_re(s, text)
       IN IF m # None
          THEN << [page |-> page_num,
                   label |-> MakeLabel(s, m),
                   type |-> kind_norm(m.kind),
                   rect |-> Rect(b.x0, b.y0, b.x1, b.y1),
                   caption_text |-> text] >>
               \o PageCaptionsFrom(page, page_num, s, k + 1)
          ELSE PageCaptionsFrom(page, page_num, s, k + 1)

\* mutant of CaptionsFrom: page 0 of a supplementary document is scanned too
RECURSIVE CaptionsFrom_AllPages(_, _, _)
CaptionsFrom_AllPages(d, s, page_num) ==
  IF page_num >= Len(d) THEN <<>>
  ELSE PageCaptionsFrom(d[page_num + 1], page_num, s, 1)
       \o CaptionsFrom_AllPages(d, s, page_num + 1)

\* page_num is the 0-based page index; d[page_num + 1] is doc[page_num]
RECURSIVE CaptionsFrom(_, _, _)
CaptionsFrom(d, s, page_num) ==
  IF page_num >= Len(d) THEN <<>>
  ELSE IF s /\ page_num = 0 THEN CaptionsFrom(d, s, page_num + 1)
  ELSE PageCaptionsFrom(d[page_num + 1], page_num, s, 1)
       \o CaptionsFrom(d, s, page_num + 1)

find_all_captions(d, s) == CaptionsFrom(d, s, 0)

(***************************************************************************)
(* Boundary resolution (extract_figure, lines 254-306 and 323-338)         *)
(***************************************************************************)
\* lines 280-285: bottom of the last body-text block between scan_top and
\* the caption
RECURSIVE LastTextFrom(_, _, _, _, _, _)
LastTextFrom(blocks, k, scan_top, cap_top_y, s, last_text_y) ==
  IF k > Len(blocks) THEN last_text_y
  ELSE LET b == blocks[k]
           text == Strip(b.text)
       IN IF /\ b.y0 >= scan_top /\ b.y1 < cap_top_y - SI_OVERLAP_TOL
             /\ caption_re(s, text) = None /\ ~SI_SECTION_RE(text) /\ text # <<>>
          THEN LastTextFrom(blocks, k + 1, scan_top, cap_top_y, s, Max2(last_text_y, b.y1))
          ELSE LastTextFrom(blocks, k + 1, scan_top, cap_top_y, s, last_text_y)

\* lines 262-265: previous caption bottom, or where the page content starts
BaseTop(page, prev_cap_bottom) ==
  IF prev_cap_bottom # NoY THEN prev_cap_bottom + PREV_GAP
  ELSE get_page_content_top(page)

\* lines 270-271
PastSectionHeader(fig_top_y, header_bottom) ==
  IF header_bottom > fig_top_y THEN header_bottom + HEADER_PAD ELSE fig_top_y

\* line 278
ScanTop(header_bottom, fig_top_y) ==
  IF header_bottom > 0 THEN header_bottom ELSE fig_top_y

\* lines 287-288
PastBodyText(fig_top_y, scan_top, last_text_y, cap_top_y) ==
  IF last_text_y > scan_top /\ (cap_top_y - last_text_y) > SI_TEXT_GAP
  THEN Max2(fig_top_y, last_text_y + PREV_GAP)
  ELSE fig_top_y

\* lines 278-288
SiTextTop(page, cap_top_y, s, fig_top_y, scan_top) ==
  PastBodyText(fig_top_y, scan_top,
               LastTextFrom(page.blocks, 1, scan_top, cap_top_y, s, scan_top), cap_top_y)

\* lines 268-288
SiTop(page, cap_top_y, s, base, header_bottom) ==
  SiTextTop(page, cap_top_y, s, PastSectionHeader(base, header_bottom),
            ScanTop(header_bottom, PastSectionHeader(base, header_bottom)))

\* mutant of PastDashed: the padded value is compared with the current top
PastDashed_PaddedCompare(fig_top_y, dashed_y) ==
  IF dashed_y # NoY /\ dashed_y + DASH_PAD > fig_top_y THEN dashed_y + DASH_PAD ELSE fig_top_y

\* lines 290-292
PastDashed(fig_top_y, dashed_y) ==
  IF dashed_y # NoY /\ dashed_y > fig_top_y THEN dashed_y + DASH_PAD ELSE fig_top_y

\* lines 262-292: the top boundary
FigTop(page, caption, prev_cap_bottom, s) ==
  IF s
  THEN SiTop(page, caption.rect.y0, s, BaseTop(page, prev_cap_bottom),
             get_si_section_header_bottom(page, caption.rect.y0))
  ELSE PastDashed(BaseTop(page, prev_cap_bottom),
                  get_dashed_separator_y(page, caption.rect.y0))

\* lines 294-299: the bottom boundary
ClipBottom(page, caption, s) ==
  IF s
  THEN Max2(get_last_content_bottom(page, caption.rect.y0, s), caption.rect.y0)
       + SI_BOTTOM_PAD
  ELSE caption.rect.y0 - MAIN_BOTTOM_GAP

\* mutant of AboveClip: the clip spans the full page width
AboveClip_NoInset(page, caption, prev_cap_bottom, s) ==
  Rect(0, FigTop(page, caption, prev_cap_bottom, s), page.w, ClipBottom(page, caption, s))

\* lines 301-306: the above-caption clip
AboveClip(page, caption, prev_cap_bottom, s) ==
  Rect(0 + EDGE_INSET, FigTop(page, caption, prev_cap_bottom, s),
       page.w - EDGE_INSET, ClipBottom(page, caption, s))

\* lines 323-338: the below-caption clip of the SI fallback
RECURSIVE NextCapsFrom(_, _, _, _)
NextCapsFrom(blocks, k, cap_bot_y, s) ==
  IF k > Len(blocks) THEN {}
  ELSE LET b == blocks[k]
           rest == NextCapsFrom(blocks, k + 1, cap_bot_y, s)
       IN IF caption_re(s, Strip(b.text)) # None /\ b.y0 > cap_bot_y + SI_OVERLAP_TOL
          THEN {b.y0} \cup rest
          ELSE rest

\* mutant of BelowBottom: a later caption does not bound the region
BelowBottom_PageOnly(page, all_caps_on_page) == page.h - BELOW_PAGE_GAP

\* lines 327-331
BelowBottom(page, all_caps_on_page) ==
  IF all_caps_on_page # {}
  THEN SetMin(all_caps_on_page) - BELOW_NEXT_GAP
  ELSE page.h - BELOW_PAGE_GAP

BelowClip(page, caption, s) ==
  Rect(0 + EDGE_INSET, caption.rect.y1 + PREV_GAP, page.w - EDGE_INSET,
       BelowBottom(page, NextCapsFrom(page.blocks, 1, caption.rect.y1, s)))

\* mutants of TooSmall: one of the two dimensions is not tested
TooSmall_HeightOnly(clip) == RectHeight(clip) < MIN_SIZE
TooSmall_WidthOnly(clip) == RectWidth(clip) < MIN_SIZE

\* the size test of lines 308 and 339
TooSmall(clip) == RectHeight(clip) < MIN_SIZE \/ RectWidth(clip) < MIN_SIZE

(***************************************************************************)
(* Region renderer: page.get_pixmap(matrix=mat, clip=clip) followed by the *)
(* reshape / BGRA2BGR / BGR2GRAY conversions.  Every page unit becomes     *)
(* ZOOM x ZOOM pixels.  Text blocks, drawings and ink rectangles are       *)
(* painted in gray (R = G = B), for which the gray conversion returns the  *)
(* common channel value; everything else is white.                         *)
(***************************************************************************)
TEXT_LEVEL == 0

\* the marks painted on a page: [x0, y0, x1, y1, lv]
Marks(page) ==
  page.ink
  \cup {[x0 |-> page.blocks[k].x0, y0 |-> page.blocks[k].y0,
         x1 |-> page.blocks[k].x1, y1 |-> page.blocks[k].y1, lv |-> TEXT_LEVEL]
        : k \in {j \in 1..Len(page.blocks) : Strip(page.blocks[j].text) # <<>>}}
  \cup {[x0 |-> page.drawings[k].x0, y0 |-> page.drawings[k].y0,
         x1 |-> page.drawings[k].x1, y1 |-> page.drawings[k].y0 + 1, lv |-> TEXT_LEVEL]
        : k \in 1..Len(page.drawings)}

\* gray level of the unit cell [x, x+1) x [y, y+1) of the page
PageLevel(marks, x, y) ==
  LET over == {m \in marks : m.x0 <= x /\ x < m.x1 /\ m.y0 <= y /\ y < m.y1}
  IN IF over = {} THEN WHITE ELSE SetMin({m.lv : m \in over})

\* one value per unit cell of the page row y inside the clip
UnitRow(marks, clip, y) ==
  [u \in 1..RectWidth(clip) |-> PageLevel(marks, clip.x0 + (u - 1), y)]

\* the matrix mat = fitz.Matrix(ZOOM, ZOOM): every unit cell becomes ZOOM x ZOOM pixels
Scale(cells) == [p \in 1..(Len(cells) * ZOOM) |-> cells[(p - 1) \div ZOOM + 1]]

Pixels(marks, clip) ==
  Scale([v \in 1..RectHeight(clip) |-> Scale(UnitRow(marks, clip, clip.y0 + (v - 1)))])

get_pixmap(page, clip) == Pixels(Marks(page), clip)

(***************************************************************************)
(* trim_whitespace(img, pad=10, white_thresh=245, dark_row_thresh=200)     *)
(* gray is the buffer, rows and columns 0-based as in the code:            *)
(* gray[r][c] of the code is gray[r + 1][c + 1] here.  The result is None  *)
(* or the slice [top:bottom, left:right] of the buffer that is returned.   *)
(***************************************************************************)
RECURSIVE RowSum(_, _)
RowSum(row, c) == IF c = 0 THEN 0 ELSE row[c] + RowSum(row, c - 1)

\* mutant of Pass1: the scan does not stop at the first white row
RECURSIVE Pass1_NoBreak(_, _, _)
Pass1_NoBreak(gray, r, top_start) ==
  IF r >= Len(gray) THEN top_start
  ELSE IF RowSum(gray[r + 1], Len(gray[r + 1])) < DARK_ROW_THRESH * Len(gray[r + 1])
       THEN Pass1_NoBreak(gray, r + 1, r + 1)
       ELSE Pass1_NoBreak(gray, r + 1, top_start)

\* Pass 1, lines 82-88.  row_mean < t  <=>  sum < t * w
RECURSIVE Pass1(_, _, _)
Pass1(gray, r, top_start) ==
  IF r >= Len(gray) THEN top_start
  ELSE LET w == Len(gray[r + 1])
           row_sum == RowSum(gray[r + 1], w)
       IN IF row_sum < DARK_ROW_THRESH * w THEN Pass1(gray, r + 1, r + 1)
          ELSE IF row_sum > (WHITE_THRESH - 5) * w THEN top_start
          ELSE Pass1(gray, r + 1, top_start)

\* Pass 3, lines 105-110: for c in range(w - 1, x0, -1)
RECURSIVE Pass3(_, _, _, _, _)
Pass3(gray, top_start, c, x0, right_end) ==
  IF c <= x0 THEN right_end
  ELSE IF \E r \in top_start..(Len(gray) - 1) : gray[r + 1][c + 1] < COL_THRESH
       THEN c
       ELSE Pass3(gray, top_start, c - 1, x0, right_end)

\* mutant of CropBox: the right edge is not cropped
CropBox_FullWidth(h, w, y0, y1, x0, right_end) ==
  [top |-> Max2(0, y0 - TRIM_PAD),
   bottom |-> Min2(h, y1 + TRIM_PAD + 1),
   left |-> Max2(0, x0 - TRIM_PAD),
   right |-> w]

\* lines 111-116: the slice that is returned
CropBox(h, w, y0, y1, x0, right_end) ==
  [top |-> Max2(0, y0 - TRIM_PAD),
   bottom |-> Min2(h, y1 + TRIM_PAD + 1),
   left |-> Max2(0, x0 - TRIM_PAD),
   right |-> Min2(w, Min2(right_end + RIGHT_PAD, w - 1) + TRIM_PAD + 1)]

\* lines 94-111: ys, xs are the row and column indices found by argwhere
\* (rows already shifted by top_start)
TrimBox(gray, h, w, top_start, ys, xs) ==
  IF ys = {} THEN None
  ELSE CropBox(h, w, SetMin(ys), SetMax(ys), SetMin(xs),
               Pass3(gray, top_start, w - 1, SetMin(xs), SetMax(xs)))

\* Pass 2, lines 91-93: coords = argwhere(gray[top_start:, :] < white_thresh)
TrimFrom(gray, h, w, top_start) ==
  TrimBox(gray, h, w, top_start,
          {r \in top_start..(h - 1) : \E c \in 0..(w - 1) : gray[r + 1][c + 1] < WHITE_THRESH},
          {c \in 0..(w - 1) : \E r \in top_start..(h - 1) : gray[r + 1][c + 1] < WHITE_THRESH})

trim_whitespace(gray) ==
  TrimFrom(gray, Len(gray), IF Len(gray) = 0 THEN 0 ELSE Len(gray[1]), Pass1(gray, 0, 0))

\* img.shape[0], img.shape[1] of a trimmed image
ImgHeight(t) == t.bottom - t.top
ImgWidth(t) == t.right - t.left

\* lines 317 and 345: a trimmed image that is tiny counts as empty
NonTiny(t) ==
  IF t = None \/ ImgHeight(t) < MIN_SIZE \/ ImgWidth(t) < MIN_SIZE THEN None ELSE t

\* lines 311-318 and 340-346: render, trim, and treat a tiny result as empty
RenderAndTrim(page, clip) == NonTiny(trim_whitespace(get_pixmap(page, clip)))

(***************************************************************************)
(* extract_figure(doc, caption, prev_cap_bottom, mat, si)                  *)
(* The result is [img, cap_bottom, pix]: img is None (the function         *)
(* returns None) or [src, clip, box], the trimmed image; pix lists the     *)
(* clips that were handed to get_pixmap, in call order.                    *)
(***************************************************************************)
\* mutants of UseFallback: the region below the caption is never tried; it is
\* tried for every supplementary caption
UseFallback_Always(img, s) == s
UseFallback_Never(img, s) == FALSE

\* line 322: the fallback is tried when the above-caption attempt gave nothing
UseFallback(img, s) == img = None /\ s

\* lines 348-351 (with the calls made to get_pixmap)
Result(caption, clip, below_clip, above, below, rendered, tryBelow) ==
  [img |-> IF above # None
           THEN [src |-> "above", page |-> caption.page, clip |-> clip, box |-> above]
           ELSE IF below # None
           THEN [src |-> "below", page |-> caption.page, clip |-> below_clip, box |-> below]
           ELSE None,
   cap_bottom |-> caption.rect.y1,
   pix |-> (IF rendered
            THEN <<[page |-> caption.page, clip |-> clip, src |-> "above"]>>
            ELSE <<>>)
           \o (IF tryBelow
               THEN <<[page |-> caption.page, clip |-> below_clip, src |-> "below"]>>
               ELSE <<>>)]

\* lines 320-346: the fallback below the caption
WithFallback(page, caption, s, clip, below_clip, above, tryBelow) ==
  Result(caption, clip, below_clip, above,
         IF tryBelow THEN RenderAndTrim(page, below_clip) ELSE None,
         ~TooSmall(clip), tryBelow)

\* lines 308-318: the region above the caption
WithAbove(page, caption, s, clip, below_clip, above) ==
  WithFallback(page, caption, s, clip, below_clip, above,
               UseFallback(above, s) /\ ~TooSmall(below_clip))

ExtractOn(page, caption, s, clip, below_clip) ==
  WithAbove(page, caption, s, clip, below_clip,
            IF TooSmall(clip) THEN None ELSE RenderAndTrim(page, clip))

extract_figure(d, caption, prev_cap_bottom, s) ==
  ExtractOn(d[caption.page + 1], caption, s,
            AboveClip(d[caption.page + 1], caption, prev_cap_bottom, s),
            BelowClip(d[caption.page + 1], caption, s))

(***************************************************************************)
(* Documents the run is checked on.  Every page is 26 units wide (so that  *)
(* the inset clip is exactly MIN_SIZE wide) except the narrow one.         *)
(***************************************************************************)
MaxPages == 2

TFig1 == <<"Figure", WS, "1", ".">>
TFig2 == <<"Figure", WS, "2", ".", WS, "Map">>
TTab1 == <<"Table", WS, "1", WS, "Data">>
TFigS3 == <<"Fig", ".", WS, "S", "3", ".">>

Block(x0, y0, x1, y1, text) ==
  [x0 |-> x0, y0 |-> y0, x1 |-> x1, y1 |-> y1, text |-> text]
Ink(x0, y0, x1, y1, lv) == [x0 |-> x0, y0 |-> y0, x1 |-> x1, y1 |-> y1, lv |-> lv]
Drawing(x0, y0, x1, dashes) == [x0 |-> x0, y0 |-> y0, x1 |-> x1, dashes |-> dashes]
Page(w, h, blocks, drawings, ink) ==
  [w |-> w, h |-> h, blocks |-> blocks, drawings |-> drawings, ink |-> ink]

\* a caption with a blank area above it and the body drawn below it, and the
\* same caption once more under the body
PBelow == Page(26, 80, <<Block(5, 40, 21, 44, TFig1), Block(5, 72, 21, 76, TFig1)>>, <<>>,
               {Ink(8, 50, 12, 66, 0)})
\* a figure with its caption below
PFig == Page(26, 60, <<Block(5, 40, 21, 44, TFig1)>>, <<>>, {Ink(8, 14, 12, 34, 0)})
\* two figures, each with its caption below
PTwo == Page(26, 72, <<Block(5, 34, 21, 38, TFig1), Block(5, 64, 21, 68, TFig2)>>, <<>>,
             {Ink(8, 12, 12, 30, 0), Ink(8, 44, 12, 60, 128)})
\* a caption at the top of the page with the body below it, then a second caption
PTop == Page(26, 60, <<Block(5, 12, 21, 16, TFig1), Block(5, 50, 21, 54, TTab1)>>, <<>>,
             {Ink(8, 22, 12, 40, 0)})
\* a page too narrow for any region
PNarrow == Page(24, 60, <<Block(5, 40, 19, 44, TFig1)>>, <<>>, {Ink(8, 14, 12, 34, 0)})
\* a page without any caption
PText == Page(26, 60, <<Block(5, 12, 21, 40, <<"Results", WS, "show">>)>>, <<>>, {})

PagePool == {PTop, PBelow, PFig, PTwo, PNarrow, PText}

(***************************************************************************)
(* run(pdf_path, out_dir, si)                                              *)
(***************************************************************************)
\* prev_cap_bottom_by_page.get(page_num)
DictGet(dict, key) == IF key \in DOMAIN dict THEN dict[key] ELSE NoY
\* dict[key] = value
DictSet(dict, key, value) ==
  [k \in DOMAIN dict \cup {key} |-> IF k = key THEN value ELSE dict[k]]

EmptyDict == <<>>

\* lines 392-397
ManifestEntry(cap) ==
  [label |-> cap.label, type |-> cap.type, path |-> cap.label,
   caption_text |-> cap.caption_text]

\* mutants of IsDuplicate: no dedup at all; an image already in out_dir counts
IsDuplicate_Never(label, labels) == FALSE
IsDuplicate_OrOnDisk(label, labels) == label \in labels \/ label \in DOMAIN files

\* line 374
IsDuplicate(label, labels) == label \in labels

Init ==
  /\ \E n \in 1..MaxPages : doc \in [1..n -> PagePool]
  /\ si \in BOOLEAN
  /\ pc = "start"
  /\ captions = <<>>
  /\ idx = 1
  /\ manifest = <<>>
  /\ prev_cap_bottom_by_page = EmptyDict
  /\ extracted_labels = {}
  /\ files = EmptyDict
  /\ manifest_json = Absent
  /\ writes = 0
  /\ log = <<>>
  /\ pixmaps = <<>>
  /\ first = None
  /\ query = None
  /\ region = None
  /\ buf = None
  /\ trim_top = 0
  /\ trimmed = None

\* lines 354-367: open the document, detect the captions; without captions
\* run() returns [] at once
Detect ==
  /\ pc = "start"
  /\ captions' = find_all_captions(doc, si)
  /\ idx' = 1
  /\ manifest' = <<>>
  /\ prev_cap_bottom_by_page' = EmptyDict
  /\ extracted_labels' = {}
  /\ pc' = IF captions' = <<>> THEN "done" ELSE "loop"
  /\ UNCHANGED <<doc, si, files, manifest_json, writes, log, pixmaps, first,
                 query, region, buf, trim_top, trimmed>>

\* lines 373-376: the label is locked in already
SkipDuplicate ==
  /\ pc = "loop"
  /\ idx <= Len(captions)
  /\ IsDuplicate(captions[idx].label, extracted_labels)
  /\ log' = Append(log, [cap |-> idx, state |-> "SKIPPED_DUPLICATE", prev |-> NoY])
  /\ idx' = idx + 1
  /\ UNCHANGED <<doc, si, pc, captions, manifest, prev_cap_bottom_by_page,
                 extracted_labels, files, manifest_json, writes, pixmaps, first,
                 query, region, buf, trim_top, trimmed>>

\* mutant of ExtractStep: the label is locked in before the result is known
ExtractStep_LockOnAttempt(cap, prev_bottom, result) ==
  /\ pixmaps' = pixmaps \o result.pix
  /\ extracted_labels' = extracted_labels \cup {cap.label}
  /\ IF result.img = None
     THEN /\ log' = Append(log, [cap |-> idx, state |-> "SKIPPED_TOO_SMALL",
                                  prev |-> prev_bottom])
          /\ UNCHANGED <<prev_cap_bottom_by_page, files, manifest>>
     ELSE /\ prev_cap_bottom_by_page' =
                DictSet(prev_cap_bottom_by_page, cap.page, result.cap_bottom)
          /\ files' = DictSet(files, cap.label, result.img)
          /\ manifest' = Append(manifest, ManifestEntry(cap))
          /\ log' = Append(log, [cap |-> idx, state |-> "WRITTEN", prev |-> prev_bottom])

\* mutant of ExtractStep: the dict of previous bottoms keeps the last page only
ExtractStep_SinglePrev(cap, prev_bottom, result) ==
  /\ pixmaps' = pixmaps \o result.pix
  /\ IF result.img = None
     THEN /\ log' = Append(log, [cap |-> idx, state |-> "SKIPPED_TOO_SMALL",
                                  prev |-> prev_bottom])
          /\ UNCHANGED <<prev_cap_bottom_by_page, extracted_labels, files, manifest>>
     ELSE /\ prev_cap_bottom_by_page' = DictSet(EmptyDict, cap.page, result.cap_bottom)
          /\ extracted_labels' = extracted_labels \cup {cap.label}
          /\ files' = DictSet(files, cap.label, result.img)
          /\ manifest' = Append(manifest, ManifestEntry(cap))
          /\ log' = Append(log, [cap |-> idx, state |-> "WRITTEN", prev |-> prev_bottom])

\* mutant of ExtractStep: the previous-caption bottom is recorded before the
\* result is tested
ExtractStep_PrevOnSkip(cap, prev_bottom, result) ==
  /\ pixmaps' = pixmaps \o result.pix
  /\ prev_cap_bottom_by_page' =
        DictSet(prev_cap_bottom_by_page, cap.page, result.cap_bottom)
  /\ IF result.img = None
     THEN /\ log' = Append(log, [cap |-> idx, state |-> "SKIPPED_TOO_SMALL",
                                  prev |-> prev_bottom])
          /\ UNCHANGED <<extracted_labels, files, manifest>>
     ELSE /\ extracted_labels' = extracted_labels \cup {cap.label}
          /\ files' = DictSet(files, cap.label, result.img)
          /\ manifest' = Append(manifest, ManifestEntry(cap))
          /\ log' = Append(log, [cap |-> idx, state |-> "WRITTEN", prev |-> prev_bottom])

\* mutant of ExtractStep: a written label is never locked in
ExtractStep_NoLock(cap, prev_bottom, result) ==
  /\ pixmaps' = pixmaps \o result.pix
  /\ UNCHANGED extracted_labels
  /\ IF result.img = None
     THEN /\ log' = Append(log, [cap |-> idx, state |-> "SKIPPED_TOO_SMALL",
                                  prev |-> prev_bottom])
          /\ UNCHANGED <<prev_cap_bottom_by_page, files, manifest>>
     ELSE /\ prev_cap_bottom_by_page' =
                DictSet(prev_cap_bottom_by_page, cap.page, result.cap_bottom)
          /\ files' = DictSet(files, cap.label, result.img)
          /\ manifest' = Append(manifest, ManifestEntry(cap))
          /\ log' = Append(log, [cap |-> idx, state |-> "WRITTEN", prev |-> prev_bottom])

\* lines 380-397: skip the caption when there is no image, else lock the label
\* in, write <label>.png and append the manifest entry
ExtractStep(cap, prev_bottom, result) ==
  /\ pixmaps' = pixmaps \o result.pix
  /\ IF result.img = None
     THEN /\ log' = Append(log, [cap |-> idx, state |-> "SKIPPED_TOO_SMALL",
                                  prev |-> prev_bottom])
          /\ UNCHANGED <<prev_cap_bottom_by_page, extracted_labels, files, manifest>>
     ELSE /\ prev_cap_bottom_by_page' =
                DictSet(prev_cap_bottom_by_page, cap.page, result.cap_bottom)
          /\ extracted_labels' = extracted_labels \cup {cap.label}
          /\ files' = DictSet(files, cap.label, result.img)
          /\ manifest' = Append(manifest, ManifestEntry(cap))
          /\ log' = Append(log, [cap |-> idx, state |-> "WRITTEN", prev |-> prev_bottom])

\* lines 369-397: one iteration of the loop on a label that is not locked in
Extract ==
  /\ pc = "loop"
  /\ idx <= Len(captions)
  /\ ~IsDuplicate(captions[idx].label, extracted_labels)
  /\ idx' = idx + 1
  /\ ExtractStep(captions[idx],
                 DictGet(prev_cap_bottom_by_page, captions[idx].page),
                 extract_figure(doc, captions[idx],
                                DictGet(prev_cap_bottom_by_page, captions[idx].page), si))
  /\ UNCHANGED <<doc, si, pc, captions, manifest_json, writes, first,
                 query, region, buf, trim_top, trimmed>>

\* fitz.open, page access, get_text, get_pixmap raise: the exception leaves
\* run() at once (no handler anywhere in the module)
AccessFailure ==
  /\ \/ pc = "start"
     \/ /\ pc = "loop" /\ idx <= Len(captions)
        /\ ~IsDuplicate(captions[idx].label, extracted_labels)
  /\ pc' = "failed"
  /\ UNCHANGED <<doc, si, captions, idx, manifest, prev_cap_bottom_by_page,
                 extracted_labels, files, manifest_json, writes, log, pixmaps, first,
                 query, region, buf, trim_top, trimmed>>

\* mutant of WriteManifest: the loop is left before its last caption
WriteManifest_BeforeLast ==
  /\ pc = "loop"
  /\ idx >= Len(captions)
  /\ writes' = writes + 1
  /\ manifest_json' = manifest
  /\ pc' = "done"
  /\ UNCHANGED <<doc, si, captions, idx, manifest, prev_cap_bottom_by_page,
                 extracted_labels, files, log, pixmaps, first, query, region, buf,
                 trim_top, trimmed>>

\* mutant of WriteManifest: the manifest is dumped inside the loop as well
WriteManifest_InLoop ==
  /\ pc = "loop"
  /\ writes' = writes + 1
  /\ manifest_json' = manifest
  /\ pc' = IF idx > Len(captions) THEN "done" ELSE "loop"
  /\ UNCHANGED <<doc, si, captions, idx, manifest, prev_cap_bottom_by_page,
                 extracted_labels, files, log, pixmaps, first, query, region, buf, trim_top, trimmed>>

\* lines 399-403: after the loop, dump the manifest
WriteManifest ==
  /\ pc = "loop"
  /\ idx > Len(captions)
  /\ writes' = writes + 1
  /\ manifest_json' = manifest
  /\ pc' = "done"
  /\ UNCHANGED <<doc, si, captions, idx, manifest, prev_cap_bottom_by_page,
                 extracted_labels, files, log, pixmaps, first, query, region, buf, trim_top, trimmed>>

\* run() is invoked again on the same PDF, output directory and mode.  The
\* finished call's locals are gone; the directory keeps what the call left
\* there.  first remembers what the first completed call produced.
Rerun ==
  /\ pc = "done"
  /\ first' = IF first = None
              THEN [manifest |-> manifest, files |-> files, manifest_json |-> manifest_json]
              ELSE first
  /\ pc' = "start"
  /\ captions' = <<>>
  /\ idx' = 1
  /\ manifest' = <<>>
  /\ prev_cap_bottom_by_page' = EmptyDict
  /\ extracted_labels' = {}
  /\ writes' = 0
  /\ log' = <<>>
  /\ pixmaps' = <<>>
  /\ UNCHANGED <<doc, si, files, manifest_json, query, region, buf, trim_top, trimmed>>

Next ==
  \/ Detect
  \/ SkipDuplicate
  \/ Extract
  \/ AccessFailure
  \/ WriteManifest
  \/ Rerun

Spec == Init /\ [][Next]_vars

\* lines 369-378: the loop is at a caption whose label is not locked in, which
\* is when an Extract step can be taken (it always moves idx)
ExtractEnabled ==
  /\ pc = "loop"
  /\ idx <= Len(captions)
  /\ ~IsDuplicate(captions[idx].label, extracted_labels)

\* run() is sequential code: each statement that can execute does execute.
\* Nothing forces a failure of fitz or a further invocation of run().
\* The last two conjuncts are weak fairness of Detect and of Extract with
\* ENABLED written out (pc = "start", ExtractEnabled).
Fairness ==
  /\ WF_vars(SkipDuplicate)
  /\ WF_vars(WriteManifest)
  /\ ([]<>(pc # "start") \/ []<><<Detect>>_vars)
  /\ ([]<>(~ExtractEnabled) \/ []<><<Extract>>_vars)

SpecLive == Init /\ [][Next]_vars /\ Fairness

(***************************************************************************)
(* Boundary resolution on its own: one caption of one page, resolved for   *)
(* a given previous-caption bottom, without rendering.                     *)
(***************************************************************************)
MaxDashes == 2

\* the earlier caption of the page, and the caption being resolved
PrevCaption == Block(5, 34, 21, 38, TFig1)
CurCaption(top) == Block(5, top, 21, top + 4, TFig2)

CapTops == {12, 40, 64, 66, 68}
DashYs == {30, 39, 40, 41, 42, 43, 50, 63, 64}
DashPatterns == {"", "[] 0", "[ 3 3 ] 0"}

\* what else is on the page
ExtraBlocks(top) ==
  { <<>>,
    <<Block(5, 2, 21, 9, <<"www.nature.com">>)>>,
    <<Block(5, 12, 21, 16, <<"Supplementary", WS, "Note", WS, "1">>)>>,
    <<Block(5, 12, 21, 20, <<"Results", WS, "show">>)>>,
    <<Block(5, top - 3, 21, top + 5, <<"Time", WS, "(", "s", ")">>)>>,
    <<Block(5, top + 10, 21, top + 14, TTab1)>>,
    <<Block(5, top + 10, 21, top + 14, TFigS3)>>,
    <<Block(5, top + 8, 21, top + 12, TFigS3)>>,
    <<Block(5, top + 10, 21, top + 14, TTab1), Block(5, top + 16, 21, top + 20, TFigS3)>> }

\* only blocks that lie on the page
Extras(top) ==
  {ex \in ExtraBlocks(top) : \A k \in 1..Len(ex) : ex[k].y0 >= 0 /\ ex[k].y1 <= 72}

DrawingSets ==
  {<<>>}
  \cup {<<Drawing(3, y, 23, d)>> : y \in DashYs, d \in DashPatterns}
  \cup (IF MaxDashes >= 2
        THEN {<<Drawing(3, y1, 23, "[ 3 3 ] 0"), Drawing(3, y2, 23, "[ 3 3 ] 0")>> :
                y1 \in DashYs, y2 \in DashYs}
        ELSE {})
  \cup (IF MaxDashes >= 3
        THEN {<<Drawing(3, y1, 23, "[ 3 3 ] 0"), Drawing(3, 41, 23, "[] 0"),
                Drawing(3, y2, 23, "[ 3 3 ] 0")>> : y1 \in DashYs, y2 \in DashYs}
        ELSE {})

\* the caption record find_all_captions builds for the block at position k
CaptionOf(page, s, k) ==
  [page |-> 0,
   label |-> MakeLabel(s, caption_re(s, Strip(page.blocks[k].text))),
   type |-> kind_norm(caption_re(s, Strip(page.blocks[k].text)).kind),
   rect |-> Rect(page.blocks[k].x0, page.blocks[k].y0, page.blocks[k].x1, page.blocks[k].y1),
   caption_text |-> Strip(page.blocks[k].text)]

\* a page with the earlier caption (prev is its bottom, or NoY when it was not
\* extracted), or a page on which the caption is the first one
QueryWithPrev(top, ex, dr, pv, s) ==
  [page |-> Page(26, 72, <<PrevCaption, CurCaption(top)>> \o ex, dr, {}),
   cap |-> 2, prev |-> pv, si |-> s]

QueryFirst(top, ex, dr, s) ==
  [page |-> Page(26, 72, <<CurCaption(top)>> \o ex, dr, {}),
   cap |-> 1, prev |-> NoY, si |-> s]

\* a page 600 x 800 whose only caption is "Figure 1." at (50, 700, 500, 720),
\* alone, under a running header, or under a dashed separator
ScenarioCaption == Block(50, 700, 500, 720, TFig1)
ScenarioPage == Page(600, 800, <<ScenarioCaption>>, <<>>, {})
ScenarioPages ==
  { ScenarioPage,
    Page(600, 800, <<ScenarioCaption, Block(50, 20, 500, 30, <<"www.nature.com">>)>>,
         <<>>, {}),
    Page(600, 800, <<ScenarioCaption>>, <<Drawing(50, 400, 550, "[ 3 3 ] 0")>>, {}) }

QueryScenario(page, s) == [page |-> page, cap |-> 1, prev |-> NoY, si |-> s]

InitRegion ==
  /\ \/ \E top \in CapTops, dr \in DrawingSets, s \in BOOLEAN :
          \E ex \in Extras(top) :
             \/ \E pv \in {NoY, PrevCaption.y1} : query = QueryWithPrev(top, ex, dr, pv, s)
             \/ Len(dr) <= 1 /\ query = QueryFirst(top, ex, dr, s)
     \/ \E page \in ScenarioPages, s \in BOOLEAN : query = QueryScenario(page, s)
  /\ region = None
  /\ doc = <<>>
  /\ si = FALSE
  /\ pc = "resolve"
  /\ captions = <<>>
  /\ idx = 1
  /\ manifest = <<>>
  /\ prev_cap_bottom_by_page = EmptyDict
  /\ extracted_labels = {}
  /\ files = EmptyDict
  /\ manifest_json = Absent
  /\ writes = 0
  /\ log = <<>>
  /\ pixmaps = <<>>
  /\ first = None
  /\ buf = None
  /\ trim_top = 0
  /\ trimmed = None

\* lines 254-306: the clip above the caption
ResolveAbove ==
  /\ pc = "resolve"
  /\ region = None
  /\ region' = [src |-> "above",
                clip |-> AboveClip(query.page, CaptionOf(query.page, query.si, query.cap),
                                   query.prev, query.si)]
  /\ UNCHANGED <<runVars, query, buf, trim_top, trimmed>>

\* lines 322-338: the clip below the caption (SI only)
ResolveBelow ==
  /\ pc = "resolve"
  /\ region # None
  /\ region.src = "above"
  /\ query.si
  /\ region' = [src |-> "below",
                clip |-> BelowClip(query.page, CaptionOf(query.page, query.si, query.cap),
                                   query.si)]
  /\ UNCHANGED <<runVars, query, buf, trim_top, trimmed>>

NextRegion ==
  \/ ResolveAbove
  \/ ResolveBelow

SpecRegion == InitRegion /\ [][NextRegion]_vars

(***************************************************************************)
(* trim_whitespace on its own: a rendered buffer is trimmed in two steps,  *)
(* pass 1 (top_start) and passes 2 and 3 with the final slice.             *)
(***************************************************************************)
MaxHeaderRows == 3

\* rows at the top of the buffer, each of one gray level: a dark bar, the two
\* levels at the thresholds of pass 1 (neither dark nor clearly white), white
HeaderLevels == {100, 200, 240, 255}
BufWidths == {48, 64}

\* what is painted under the top rows: marks [a, b, lv] covering the columns
\* a .. b - 1 (0-based) of four rows
Mark(a, b, lv) == [a |-> a, b |-> b, lv |-> lv]
Contents ==
  { {},
    {Mark(2, 3, 0)},
    {Mark(4, 10, 0)},
    {Mark(4, 10, 230)},
    {Mark(4, 10, 0), Mark(12, 20, 230)},
    {Mark(16, 24, 0)},
    {Mark(20, 32, 0)},
    {Mark(0, 64, 0)} }

\* level of the pixel in column c (0-based) of a content row
ContentLevel(marks, c) ==
  LET over == {m \in marks : m.a <= c /\ c < m.b}
  IN IF over = {} THEN WHITE ELSE SetMin({m.lv : m \in over})

\* the buffer: the top rows, gap white rows, four content rows, one white row
BufferOf(w, hdr, gap, marks) ==
  [r \in 1..(Len(hdr) + gap + 5) |->
     [c \in 1..w |->
        IF r <= Len(hdr) THEN hdr[r]
        ELSE IF r - Len(hdr) - gap \in 1..4 THEN ContentLevel(marks, c - 1)
        ELSE WHITE]]

InitTrim ==
  /\ \E w \in BufWidths, n \in 0..MaxHeaderRows, gap \in {0, 1}, marks \in Contents :
        \E hdr \in [1..n -> HeaderLevels] : buf = BufferOf(w, hdr, gap, marks)
  /\ trim_top = 0
  /\ trimmed = None
  /\ pc = "pass1"
  /\ doc = <<>>
  /\ si = FALSE
  /\ captions = <<>>
  /\ idx = 1
  /\ manifest = <<>>
  /\ prev_cap_bottom_by_page = EmptyDict
  /\ extracted_labels = {}
  /\ files = EmptyDict
  /\ manifest_json = Absent
  /\ writes = 0
  /\ log = <<>>
  /\ pixmaps = <<>>
  /\ first = None
  /\ query = None
  /\ region = None

\* lines 78-88: pass 1
TrimPass1 ==
  /\ pc = "pass1"
  /\ trim_top' = Pass1(buf, 0, 0)
  /\ pc' = "pass2"
  /\ UNCHANGED <<doc, si, captions, idx, manifest, prev_cap_bottom_by_page,
                 extracted_labels, files, manifest_json, writes, log, pixmaps, first,
                 query, region, buf, trimmed>>

\* lines 90-116: pass 2, pass 3 and the slice returned
TrimCrop ==
  /\ pc = "pass2"
  /\ trimmed' = TrimFrom(buf, Len(buf), Len(buf[1]), trim_top)
  /\ pc' = "trimmed"
  /\ UNCHANGED <<doc, si, captions, idx, manifest, prev_cap_bottom_by_page,
                 extracted_labels, files, manifest_json, writes, log, pixmaps, first,
                 query, region, buf, trim_top>>

NextTrim ==
  \/ TrimPass1
  \/ TrimCrop

SpecTrim == InitTrim /\ [][NextTrim]_vars

(***************************************************************************)
(* Properties.  Helpers first: they read the state only.                   *)
(***************************************************************************)
\* the caption a log line is about, its label and its page
LogCap(k) == captions[log[k].cap]
LogLabel(k) == captions[log[k].cap].label
LogPage(k) == doc[captions[log[k].cap].page + 1]

ManifestLabels == {manifest[m].label : m \in 1..Len(manifest)}

\* the size test, written out on the clip's coordinates
SmallRegion(clip) == clip.y1 - clip.y0 < 20 \/ clip.x1 - clip.x0 < 20

\* the regions resolved for the caption of log line k
LogAbove(k) == AboveClip(LogPage(k), LogCap(k), log[k].prev, si)
LogBelow(k) == BelowClip(LogPage(k), LogCap(k), si)

\* no region of the caption of log line k passes the size test
NoUsableRegion(k) ==
  /\ log[k].state # "SKIPPED_DUPLICATE"
  /\ SmallRegion(LogAbove(k))
  /\ si => SmallRegion(LogBelow(k))

\* C1: after any sequence of detected captions the manifest holds at most one
\* entry per label, and at most one image <label>.png is written per label
\* in a run.
C1_OneEntryPerLabel ==
  /\ \A i, j \in 1..Len(manifest) :
        manifest[i].label = manifest[j].label => i = j
  /\ \A i, j \in 1..Len(log) :
        (/\ log[i].state = "WRITTEN" /\ log[j].state = "WRITTEN"
         /\ LogLabel(i) = LogLabel(j)) => i = j

C1_Witness ==
  /\ pc = "done"
  /\ Len(manifest) >= 2
  /\ \E k \in 1..Len(log) : log[k].state = "SKIPPED_DUPLICATE"

\* C2: a label is locked in only by a successful extraction: a duplicate skip
\* always follows a written occurrence of the same label, and the manifest
\* entry of a label (caption text, page of the image) comes from the first
\* occurrence in document order that produced an image; every earlier
\* occurrence of the label was tried and gave nothing.
C2_LockedByFirstSuccess ==
  /\ \A k \in 1..Len(log) :
        log[k].state = "SKIPPED_DUPLICATE" =>
          \E j \in 1..(k - 1) : log[j].state = "WRITTEN" /\ LogLabel(j) = LogLabel(k)
  /\ \A m \in 1..Len(manifest) :
        \E k \in 1..Len(log) :
           /\ log[k].state = "WRITTEN"
           /\ LogLabel(k) = manifest[m].label
           /\ manifest[m].caption_text = LogCap(k).caption_text
           /\ manifest[m].label \in DOMAIN files
           /\ files[manifest[m].label].page = LogCap(k).page
           /\ \A j \in 1..(k - 1) :
                 LogLabel(j) = LogLabel(k) => log[j].state = "SKIPPED_TOO_SMALL"

C2_Witness ==
  /\ pc = "done"
  /\ \E k \in 1..Len(log) :
        /\ log[k].state = "WRITTEN"
        /\ \E j \in 1..(k - 1) :
              LogLabel(j) = LogLabel(k) /\ log[j].state = "SKIPPED_TOO_SMALL"
        /\ \E m \in 1..Len(manifest) :
              manifest[m].label = LogLabel(k) /\ files[LogLabel(k)].page = LogCap(k).page

\* C3: for a document without any caption of the run's mode the run completes,
\* the manifest.json it produces is an empty array, and no image is written.
C3_NoCaptionsEmptyManifest ==
  (pc = "done" /\ captions = <<>>) =>
     (manifest_json = <<>> /\ DOMAIN files = {})

\* C4 as stated: a caption whose resolved (or fallback) region is smaller than
\* 20 in height or width leaves no image file and no manifest entry for its
\* label after the run.
C4_NoImageForLabel ==
  pc = "done" =>
    \A k \in 1..Len(log) :
       NoUsableRegion(k) =>
          (LogLabel(k) \notin DOMAIN files /\ LogLabel(k) \notin ManifestLabels)

\* C4 amended: when the loop handles a caption whose above-caption region is
\* smaller than 20 in height or width and (in supplementary mode) whose
\* fallback region is too small as well, that step writes no image file and
\* appends no manifest entry, records the caption as skipped (too small),
\* and the loop goes on to the next caption.
C4_SmallRegionSkipped ==
  [][ (/\ pc = "loop" /\ idx <= Len(captions)
       /\ captions[idx].label \notin extracted_labels
       /\ SmallRegion(AboveClip(doc[captions[idx].page + 1], captions[idx],
                                DictGet(prev_cap_bottom_by_page, captions[idx].page), si))
       /\ si => SmallRegion(BelowClip(doc[captions[idx].page + 1], captions[idx], si))
       /\ pc' # "failed")
      => (/\ files' = files
          /\ manifest' = manifest
          /\ extracted_labels' = extracted_labels
          /\ pc' = "loop"
          /\ idx' = idx + 1
          /\ log' = Append(log, [cap |-> idx, state |-> "SKIPPED_TOO_SMALL",
                                 prev |-> DictGet(prev_cap_bottom_by_page,
                                                  captions[idx].page)])) ]_vars

C4_Witness ==
  /\ pc = "done"
  /\ \E k \in 1..Len(log) :
        /\ NoUsableRegion(k)
        /\ log[k].state = "SKIPPED_TOO_SMALL"
        /\ \E j \in (k + 1)..Len(log) : log[j].state = "WRITTEN"

\* C5: manifest.json is written at most once per run and only after every
\* detected caption has reached a terminal state; when PDF access or rendering
\* fails while a caption is processed, the run ends without having written a
\* manifest: manifest.json is what it was before the run.
C5_ManifestWrittenOnceAtEnd ==
  /\ writes <= 1
  /\ writes = 1 =>
       (pc = "done" /\ Len(log) = Len(captions) /\ manifest_json = manifest)
  /\ pc = "failed" =>
       (/\ writes = 0
        /\ manifest_json = IF first = None THEN Absent ELSE first.manifest_json)

C5_Witness ==
  /\ pc = "failed"
  /\ first = None
  /\ Len(log) >= 1
  /\ DOMAIN files # {}
  /\ manifest_json = Absent

\* C6: a second run on the same document and mode ends with the same manifest
\* (entries, order, content), the same manifest.json and the same images as
\* the first run.
C6_RerunSameResult ==
  (pc = "done" /\ first # None) =>
     (/\ manifest = first.manifest
      /\ files = first.files
      /\ manifest_json = first.manifest_json)

C6_Witness ==
  /\ pc = "done"
  /\ first # None
  /\ Len(manifest) >= 1
  /\ \E k \in 1..Len(log) : log[k].state = "SKIPPED_TOO_SMALL"
  /\ \E k \in 1..Len(log) : log[k].state = "SKIPPED_DUPLICATE"

\* the Y of the dashed separators above the caption of the query
QueryCapTop == query.page.blocks[query.cap].y0
QueryDashYs ==
  {query.page.drawings[k].y0 :
     k \in {j \in 1..Len(query.page.drawings) :
              /\ query.page.drawings[j].dashes = "[ 3 3 ] 0"
              /\ query.page.drawings[j].y0 < QueryCapTop}}

MainAboveWithPrev ==
  /\ region # None
  /\ region.src = "above"
  /\ ~query.si
  /\ query.prev # NoY

\* C7 as stated: in main mode, for a dashed separator whose Y lies strictly
\* between the previous caption's bottom and the caption's top, the resolved
\* top is Y + 2 whenever Y + 2 exceeds previous-caption-bottom + 3.
C7_DashedWhenPaddedExceeds ==
  MainAboveWithPrev =>
    \A y \in QueryDashYs :
       (query.prev < y /\ y + 2 > query.prev + 3) => region.clip.y0 = y + 2

\* C7 amended: in main mode with a previous caption on the page, let Y be the
\* greatest dashed-separator Y above the caption's top.  The resolved top is
\* Y + 2 whenever Y itself exceeds previous-caption-bottom + 3; otherwise (or
\* without a dashed separator) it is previous-caption-bottom + 3.
C7_DashedWhenYExceeds ==
  MainAboveWithPrev =>
    IF QueryDashYs # {} /\ SetMax(QueryDashYs) > query.prev + 3
    THEN region.clip.y0 = SetMax(QueryDashYs) + 2
    ELSE region.clip.y0 = query.prev + 3

C7_Witness ==
  /\ MainAboveWithPrev
  /\ Cardinality(QueryDashYs) = 2
  /\ SetMax(QueryDashYs) > query.prev + 3
  /\ region.clip.y0 = SetMax(QueryDashYs) + 2

\* the above-caption region of the last log line trims to empty, and the
\* below-caption region is large enough and trims to an image
AboveEmptyBelowValid(k) ==
  /\ log[k].state # "SKIPPED_DUPLICATE"
  /\ ~SmallRegion(LogAbove(k))
  /\ ~SmallRegion(LogBelow(k))
  /\ RenderAndTrim(LogPage(k), LogAbove(k)) = None
  /\ RenderAndTrim(LogPage(k), LogBelow(k)) # None

\* C8: in supplementary mode, when a caption's above-caption region trims to
\* empty while its below-caption region is valid, the extraction succeeds, the
\* image written is the below-caption region, and the manifest entry carries
\* the caption's own text.  "Empty" is the trimming stage's notion: no pixel
\* darker than 245, or a cropped result under 20 pixels in height or width.
\* (Checked on the caption the loop has just finished, which is every caption
\* in turn.)
C8_FallbackImage ==
  (si /\ pc = "loop" /\ Len(log) > 0 /\ AboveEmptyBelowValid(Len(log))) =>
     (/\ log[Len(log)].state = "WRITTEN"
      /\ LogLabel(Len(log)) \in DOMAIN files
      /\ files[LogLabel(Len(log))].src = "below"
      /\ files[LogLabel(Len(log))].clip = LogBelow(Len(log))
      /\ files[LogLabel(Len(log))].page = LogCap(Len(log)).page
      /\ Len(manifest) > 0
      /\ manifest[Len(manifest)].label = LogLabel(Len(log))
      /\ manifest[Len(manifest)].caption_text = LogCap(Len(log)).caption_text)

C8_Witness ==
  /\ si
  /\ pc = "loop"
  /\ Len(log) > 0
  /\ AboveEmptyBelowValid(Len(log))
  /\ log[Len(log)].state = "WRITTEN"
  /\ Len(pixmaps) >= 2

\* C9: every region handed to the renderer, above or below the caption, has
\* top < bottom, left < right, and height and width of at least 20; a region
\* failing this is not rendered.
C9_RenderedRegionsValid ==
  \A i \in 1..Len(pixmaps) :
     /\ pixmaps[i].clip.y0 < pixmaps[i].clip.y1
     /\ pixmaps[i].clip.x0 < pixmaps[i].clip.x1
     /\ pixmaps[i].clip.y1 - pixmaps[i].clip.y0 >= 20
     /\ pixmaps[i].clip.x1 - pixmaps[i].clip.x0 >= 20

C9_Witness ==
  /\ pc = "done"
  /\ si
  /\ Len(pixmaps) >= 2
  /\ \E k \in 1..Len(log) :
        /\ log[k].state = "WRITTEN"
        /\ SmallRegion(LogAbove(k))
        /\ files[LogLabel(k)].src = "below"
        /\ \E i \in 1..Len(pixmaps) : pixmaps[i].clip = files[LogLabel(k)].clip

QueryCapBottom == query.page.blocks[query.cap].y1
QueryLaterCaptionTops ==
  {query.page.blocks[k].y0 :
     k \in {j \in 1..Len(query.page.blocks) :
              /\ caption_re(query.si, Strip(query.page.blocks[j].text)) # None
              /\ query.page.blocks[j].y0 > QueryCapBottom + 5}}

C11_ScenarioRegion ==
  (/\ region # None /\ region.src = "above"
   /\ ~query.si /\ query.prev = NoY /\ query.page = ScenarioPage) =>
     (/\ region.clip.y0 = 10
      /\ region.clip.y1 = 697
      /\ RectHeight(region.clip) = 687)

C11_Witness ==
  /\ region # None
  /\ region.src = "above"
  /\ ~query.si
  /\ query.prev = NoY
  /\ query.page.h = 800
  /\ Len(query.page.blocks) = 1
  /\ query.page.drawings = <<>>
  /\ region.clip.y1 - region.clip.y0 = 687

\* the blocks of the query's page other than the caption being resolved
QueryOtherBlocks == {k \in 1..Len(query.page.blocks) : k # query.cap}
QueryText(k) == Strip(query.page.blocks[k].text)

\* C13: in supplementary mode, without a previous caption on the page, the
\* baseline top is the default margin 10 whatever running-header keyword
\* block lies near the page top: on a page whose other blocks are captions
\* or header-keyword blocks (no section title, no body text to move the
\* top further) the resolved top is 10.
C13_SiBaselineIsDefaultMargin ==
  (/\ region # None /\ region.src = "above"
   /\ query.si /\ query.prev = NoY
   /\ \A k \in QueryOtherBlocks :
         \/ caption_re(TRUE, QueryText(k)) # None
         \/ HasHeaderKeyword(QueryText(k)) /\ query.page.blocks[k].y0 < 40) =>
     region.clip.y0 = 10

\* B of the claim: the largest bottom among the blocks that are neither
\* captions nor section headers and end at or above caption-top + 5
QueryContentBottoms ==
  {query.page.blocks[k].y1 :
     k \in {j \in 1..Len(query.page.blocks) :
              /\ caption_re(query.si, QueryText(j)) = None
              /\ ~SI_SECTION_RE(QueryText(j))
              /\ query.page.blocks[j].y1 <= QueryCapTop + 5}}
QueryLastContentBottom ==
  IF QueryContentBottoms = {} THEN 0 ELSE SetMax(QueryContentBottoms)

\* C14: in supplementary mode the bottom boundary is max(caption-top + 2, B);
\* in main mode it is caption-top - 3, above the caption block.
C14_BottomBoundary ==
  (region # None /\ region.src = "above") =>
     IF query.si
     THEN region.clip.y1 = Max2(QueryCapTop + 2, QueryLastContentBottom)
     ELSE region.clip.y1 = QueryCapTop - 3 /\ region.clip.y1 < QueryCapTop

\* the type of a caption block of the query's page
QueryType(k) == kind_norm(caption_re(query.si, QueryText(k)).kind)
QueryLaterSameTypeTops ==
  {query.page.blocks[k].y0 :
     k \in {j \in 1..Len(query.page.blocks) :
              /\ caption_re(query.si, QueryText(j)) # None
              /\ query.page.blocks[j].y0 > QueryCapBottom + 5
              /\ QueryType(j) = QueryType(query.cap)}}

\* C15 as stated: the fallback region spans from caption-bottom + 3 to the
\* top of the next caption of the same type below on the page - 3, or to
\* page-bottom - 5 when there is none; a caption of the other type below does
\* not bound it.
C15_FallbackToNextSameType ==
  (region # None /\ region.src = "below") =>
     /\ region.clip.y0 = QueryCapBottom + 3
     /\ region.clip.y1 = (IF QueryLaterSameTypeTops # {}
                          THEN SetMin(QueryLaterSameTypeTops) - 3
                          ELSE query.page.h - 5)

\* C15 amended: the fallback region spans from caption-bottom + 3 to the top
\* of the nearest caption of either type whose top lies more than 5 below
\* the caption's bottom - 3, or to page-bottom - 5 when there is no such
\* caption.
C15_FallbackToNextCaption ==
  (region # None /\ region.src = "below") =>
     /\ region.clip.y0 = QueryCapBottom + 3
     /\ region.clip.y1 = (IF QueryLaterCaptionTops # {}
                          THEN SetMin(QueryLaterCaptionTops) - 3
                          ELSE query.page.h - 5)

C15_Witness ==
  /\ region # None
  /\ region.src = "below"
  /\ QueryLaterSameTypeTops # {}
  /\ QueryLaterCaptionTops # QueryLaterSameTypeTops
  /\ region.clip.y1 = SetMin(QueryLaterCaptionTops) - 3
  /\ region.clip.y1 < SetMin(QueryLaterSameTypeTops) - 3

\* the loop has just finished a caption in this step, with the given state
Finished(state) ==
  /\ pc = "loop"
  /\ Len(log') = Len(log) + 1
  /\ SubSeq(log', 1, Len(log)) = log
  /\ log'[Len(log')].cap = idx
  /\ log'[Len(log')].state = state

\* the labels of the captions the log reports as written, in log order
WrittenLines == SelectSeq(log, LAMBDA e : e.state = "WRITTEN")

\* C16: a successful extraction of a caption on page p sets page p's
\* previous-caption-bottom to the caption's bottom, leaves every other page's
\* unchanged, locks the label in and appends one manifest entry; so the
\* manifest lists the written captions in the order they were processed.
C16_SuccessFrame ==
  /\ [][ Finished("WRITTEN") =>
           (/\ DOMAIN prev_cap_bottom_by_page' =
                  DOMAIN prev_cap_bottom_by_page \cup {captions[idx].page}
            /\ prev_cap_bottom_by_page'[captions[idx].page] = captions[idx].rect.y1
            /\ \A q \in DOMAIN prev_cap_bottom_by_page \ {captions[idx].page} :
                  prev_cap_bottom_by_page'[q] = prev_cap_bottom_by_page[q]
            /\ extracted_labels' = extracted_labels \cup {captions[idx].label}
            /\ Len(manifest') = Len(manifest) + 1
            /\ SubSeq(manifest', 1, Len(manifest)) = manifest
            /\ manifest'[Len(manifest')].label = captions[idx].label
            /\ manifest'[Len(manifest')].caption_text = captions[idx].caption_text) ]_vars
  /\ [](/\ Len(manifest) = Len(WrittenLines)
        /\ \A m \in 1..Len(manifest) :
              /\ manifest[m].label = captions[WrittenLines[m].cap].label
              /\ m > 1 => WrittenLines[m - 1].cap < WrittenLines[m].cap)

C16_Witness ==
  /\ pc = "done"
  /\ Cardinality(DOMAIN prev_cap_bottom_by_page) = 2
  /\ Len(manifest) >= 3
  /\ prev_cap_bottom_by_page[0] # prev_cap_bottom_by_page[1]

\* C17: every detected caption is processed exactly once, in document order,
\* and ends in exactly one of the states SKIPPED_DUPLICATE, WRITTEN,
\* SKIPPED_TOO_SMALL: the k-th log line is about the k-th caption, the loop is
\* at the caption after the last log line, and the run is done only with one
\* log line per caption.  A duplicate skip resolves and renders nothing.
\* Unless the access to the PDF fails, a run that has started finishes.
C17_EachCaptionOnce ==
  /\ [](/\ \A k \in 1..Len(log) :
              /\ log[k].cap = k
              /\ log[k].state \in {"SKIPPED_DUPLICATE", "WRITTEN", "SKIPPED_TOO_SMALL"}
        /\ pc = "loop" => Len(log) = idx - 1
        /\ pc = "done" => Len(log) = Len(captions))
  /\ [][ Finished("SKIPPED_DUPLICATE") =>
           (/\ captions[idx].label \in extracted_labels
            /\ pixmaps' = pixmaps
            /\ files' = files
            /\ manifest' = manifest
            /\ prev_cap_bottom_by_page' = prev_cap_bottom_by_page) ]_vars
  /\ (pc \in {"start", "loop"}) ~> (pc \in {"done", "failed"})

C17_Witness ==
  /\ pc = "done"
  /\ Len(log) = Len(captions)
  /\ \A st \in {"SKIPPED_DUPLICATE", "WRITTEN", "SKIPPED_TOO_SMALL"} :
        \E k \in 1..Len(log) : log[k].state = st

\* the loop finishes a caption in this step, and the pixmaps this step rendered
LoopStep == pc = "loop" /\ idx <= Len(captions) /\ idx' = idx + 1
NewPixmaps == SubSeq(pixmaps', Len(pixmaps) + 1, Len(pixmaps'))

\* the above-caption attempt on region clip of the caption's page gave no image
AboveGaveNothing(cap, clip) ==
  TooSmall(clip) \/ RenderAndTrim(doc[cap.page + 1], clip) = None

\* C18: the only retry is the one fallback from above to below the caption in
\* supplementary mode.  In main mode the step of a caption renders at most
\* once and never the region below the caption.  In supplementary mode it
\* renders at most twice, the region above first, and the region below only
\* when the attempt above gave no image (region too small to render, or
\* nothing left after the trim).
C18_SingleFallback ==
  [][ LoopStep =>
        (/\ Len(pixmaps') >= Len(pixmaps)
         /\ SubSeq(pixmaps', 1, Len(pixmaps)) = pixmaps
         /\ \A k \in 1..Len(NewPixmaps) : NewPixmaps[k].page = captions[idx].page
         /\ ~si => /\ Len(NewPixmaps) <= 1
                   /\ \A k \in 1..Len(NewPixmaps) : NewPixmaps[k].src = "above"
         /\ si => /\ Len(NewPixmaps) <= 2
                  /\ Len(NewPixmaps) = 2 =>
                        NewPixmaps[1].src = "above" /\ NewPixmaps[2].src = "below"
                  /\ \A k \in 1..Len(NewPixmaps) :
                        NewPixmaps[k].src = "below" =>
                          /\ AboveGaveNothing(
                               captions[idx],
                               AboveClip(doc[captions[idx].page + 1], captions[idx],
                                         DictGet(prev_cap_bottom_by_page,
                                                 captions[idx].page), si))
                          /\ k = 2 =>
                               NewPixmaps[1].clip =
                                 AboveClip(doc[captions[idx].page + 1], captions[idx],
                                           DictGet(prev_cap_bottom_by_page,
                                                   captions[idx].page), si)) ]_vars

\* a supplementary run has rendered the region above a caption and then the
\* region below the same caption, and wrote the image found below
C18_Witness ==
  /\ si
  /\ \E k \in 1..(Len(pixmaps) - 1) :
        /\ pixmaps[k].src = "above"
        /\ pixmaps[k + 1].src = "below"
        /\ pixmaps[k + 1].page = pixmaps[k].page
        /\ \E l \in DOMAIN files :
              files[l].src = "below" /\ files[l].clip = pixmaps[k + 1].clip

\* the pages find_all_captions scans: all but page 0 of a supplementary document
ScannedPages == {p \in 0..(Len(doc) - 1) : ~(si /\ p = 0)}

\* the blocks of page p whose text the mode's caption grammar accepts
CaptionBlocks(p) ==
  {k \in 1..Len(doc[p + 1].blocks) :
     caption_re(si, Strip(doc[p + 1].blocks[k].text)) # None}

\* C19: in supplementary mode no caption is ever detected on page 0, whatever
\* its text, so no rendered region, image, manifest entry or previous-caption
\* bottom comes from page 0; every other page, and in main mode page 0 too,
\* is scanned: each of its blocks the caption grammar accepts is a caption.
C19_SiPageZeroSkipped ==
  /\ si => /\ \A k \in 1..Len(captions) : captions[k].page >= 1
           /\ 0 \notin DOMAIN prev_cap_bottom_by_page
           /\ \A l \in DOMAIN files : files[l].page >= 1
           /\ \A k \in 1..Len(pixmaps) : pixmaps[k].page >= 1
           /\ \A m \in 1..Len(manifest) :
                 \E k \in 1..Len(captions) :
                    captions[k].label = manifest[m].label /\ captions[k].page >= 1
  /\ pc \in {"loop", "done"} =>
        \A p \in ScannedPages : \A b \in CaptionBlocks(p) :
           \E k \in 1..Len(captions) :
              /\ captions[k].page = p
              /\ captions[k].rect.y0 = doc[p + 1].blocks[b].y0
              /\ captions[k].caption_text = Strip(doc[p + 1].blocks[b].text)

\* a finished supplementary run on a document whose page 0 holds text the
\* supplementary caption grammar accepts, with a figure written from page 1
C19_Witness ==
  /\ si
  /\ pc = "done"
  /\ Len(doc) = 2
  /\ CaptionBlocks(0) # {}
  /\ manifest # <<>>
  /\ \E l \in DOMAIN files : files[l].page = 1

\* a finished main-mode run that wrote a figure whose caption is on page 0
C19_WitnessMain ==
  /\ ~si
  /\ pc = "done"
  /\ \E k \in 1..Len(captions) : captions[k].page = 0
  /\ \E l \in DOMAIN files : files[l].page = 0

\* the buffer being trimmed: size, and the columns of its two halves (0-based)
BufH == Len(buf)
BufW == Len(buf[1])
LeftHalf == 0..((BufW \div 2) - 1)
RightHalf == (BufW \div 2)..(BufW - 1)

\* the right half is uniformly near-white, the left half has dark content
RightHalfWhite ==
  \A r \in 0..(BufH - 1), c \in RightHalf : buf[r + 1][c + 1] >= 245
LeftHalfDark ==
  \E r \in 0..(BufH - 1), c \in LeftHalf : buf[r + 1][c + 1] < 220

\* the rightmost column of the buffer that holds a pixel below 245
LastInkColumn ==
  SetMax({c \in 0..(BufW - 1) : \E r \in 0..(BufH - 1) : buf[r + 1][c + 1] < 245})

\* C12 as stated: for a buffer whose right half is uniformly near-white and
\* whose left half contains dark content, the output of trim_whitespace
\* contains no column of the right half.
C12_NoRightHalfColumn ==
  (pc = "trimmed" /\ trimmed # None /\ RightHalfWhite /\ LeftHalfDark) =>
     trimmed.right <= BufW \div 2

\* C12 amended: for such a buffer the output ends at most 22 columns
\* (12 + 10 of padding) to the right of the rightmost column holding a pixel
\* below 245, so it has no right-half column when that column lies at least
\* 23 columns left of the middle, and can have up to 22 of them otherwise.
C12_RightEdgeWithinPadding ==
  (pc = "trimmed" /\ trimmed # None /\ RightHalfWhite /\ LeftHalfDark) =>
     /\ trimmed.right - 1 <= LastInkColumn + 22
     /\ LastInkColumn + 23 <= BufW \div 2 => trimmed.right <= BufW \div 2

C12_Witness ==
  /\ pc = "trimmed"
  /\ trimmed # None
  /\ RightHalfWhite
  /\ LeftHalfDark
  /\ trimmed.right > BufW \div 2
  /\ trimmed.right < BufW

\* rows by mean intensity: mean < 200 and mean > 240, on the row sums
RowBelow200(r) == RowSum(buf[r + 1], BufW) < 200 * BufW
RowAbove240(r) == RowSum(buf[r + 1], BufW) > 240 * BufW

\* the first row with mean above 240 (the buffer height when there is none)
FirstWhiteRow ==
  IF \E r \in 0..(BufH - 1) : RowAbove240(r)
  THEN SetMin({r \in 0..(BufH - 1) : RowAbove240(r)})
  ELSE BufH

\* the rows with mean below 200 that come before the first row above 240
DarkRowsBeforeWhite == {r \in 0..(FirstWhiteRow - 1) : RowBelow200(r)}

\* C20: pass 1 sets the trim-top to one past the last row with mean below 200
\* that occurs before the first row with mean above 240; rows after that
\* first white row never move it, and it is 0 when no row below 200
\* precedes the first white row.
C20_TrimTopAfterLastDarkRow ==
  pc \in {"pass2", "trimmed"} =>
     trim_top = (IF DarkRowsBeforeWhite = {} THEN 0
                 ELSE SetMax(DarkRowsBeforeWhite) + 1)

C20_Witness ==
  /\ pc = "pass2"
  /\ trim_top > 0
  /\ trim_top < FirstWhiteRow
  /\ \E r \in (FirstWhiteRow + 1)..(BufH - 1) : RowBelow200(r)
  /\ \E r \in 0..(trim_top - 1) : ~RowBelow200(r)

\* C21: a skipped caption, whether a duplicate of a locked-in label or one whose
\* extraction gave no image, changes nothing but the loop position: the
\* locked-in labels, the previous-caption bottom of every page, the manifest
\* and the image files in out_dir are what they were before the iteration.
C21_SkipChangesNothing ==
  [][ (Finished("SKIPPED_DUPLICATE") \/ Finished("SKIPPED_TOO_SMALL")) =>
        (/\ extracted_labels' = extracted_labels
         /\ prev_cap_bottom_by_page' = prev_cap_bottom_by_page
         /\ manifest' = manifest
         /\ files' = files
         /\ manifest_json' = manifest_json
         /\ idx' = idx + 1) ]_vars

\* the run has skipped a duplicate, and a caption that gave no image after an
\* image of another label was written
C21_Witness ==
  /\ manifest # <<>>
  /\ \E j, k \in 1..Len(log) :
        /\ log[j].state = "SKIPPED_DUPLICATE"
        /\ log[k].state = "SKIPPED_TOO_SMALL"
        /\ \E w \in 1..(k - 1) :
              /\ log[w].state = "WRITTEN"
              /\ captions[w].label # captions[k].label

\* the labels of the images this call has written
WrittenLabels == {captions[WrittenLines[m].cap].label : m \in 1..Len(WrittenLines)}

\* C22: at the start of every iteration of the loop and at its end, the
\* locked-in labels, the labels of the manifest and the labels whose image
\* <label>.png this call has written are the same set, each of those images
\* is in out_dir (which holds nothing else on a first call), and the manifest
\* has exactly one entry for each label.
C22_LabelSetsAgree ==
  pc \in {"loop", "done"} =>
    /\ extracted_labels = ManifestLabels
    /\ extracted_labels = WrittenLabels
    /\ WrittenLabels \subseteq DOMAIN files
    /\ first = None => DOMAIN files = extracted_labels
    /\ Len(manifest) = Cardinality(extracted_labels)
    /\ \A l \in extracted_labels :
          Cardinality({m \in 1..Len(manifest) : manifest[m].label = l}) = 1

\* the loop is about to start an iteration with two labels locked in, after
\* a skipped caption
C22_Witness ==
  /\ pc = "loop"
  /\ idx <= Len(captions)
  /\ Cardinality(extracted_labels) = 2
  /\ Len(log) > Len(manifest)
  /\ first = None

====
